---- MODULE Spec2Model ----
(***************************************************************************)
(* Model of the attribute parser (xsd-parser/src/parser/attribute.rs) and  *)
(* of the comment builders (src/generator/utils.rs) of xsd-parser-rs.      *)
(*                                                                         *)
(* A Rust Option<T> is a sequence of length <= 1: <<>> is None, <<v>> is   *)
(* Some(v).  A Rust String is a TLA+ string where only equality and        *)
(* concatenation matter (names of the IR) and a sequence of characters     *)
(* where bytes and positions matter (documentation text).  A call either   *)
(* returns a value (kind "Ok") or unwinds with a panic (kind "Panic").     *)
(* The `comment` field of the IR entities (get_documentation) is left out: *)
(* no operation modelled here reads it.                                    *)
(***************************************************************************)
EXTENDS Integers, Sequences, FiniteSets, TLC

VARIABLES
    mode,     \* which family of inputs this run works on: "attr" or "doc"
    node,     \* the xs:attribute node handed to the parser
    parent,   \* the parent node handed to parse_attribute
    doc,      \* the Option<&str> handed to the comment builders
    op,       \* the operation that has run ("init" before any)
    result    \* the outcome of that operation

vars == <<mode, node, parent, doc, op, result>>

(***************************************************************************)
(* Bounds of the model.                                                    *)
(***************************************************************************)
MaxChildren == 2     \* children of the attribute node
MaxDocLen == 4       \* characters of a free-form documentation text
MaxLineLen == 130    \* characters of a long documentation line

(***************************************************************************)
(* Outcomes and Option helpers.                                            *)
(***************************************************************************)
None == <<>>
Some(v) == <<v>>
Ok(v) == [kind |-> "Ok", value |-> v]
Panic(m) == [kind |-> "Panic", msg |-> m]
NoResult == [kind |-> "NoResult"]

\* Option::or_else
or_else(o, alt) == IF o # None THEN o ELSE alt
\* Option::unwrap_or
unwrap_or(o, dflt) == IF o # None THEN o[1] ELSE dflt

(***************************************************************************)
(* The XML node interface (roxmltree::Node behind the XsdNode trait).      *)
(***************************************************************************)
attr_name(n) == n.name
attr_ref(n) == n.ref
attr_type(n) == n.type
has_attribute_TYPE(n) == n.type # None
has_attribute_REF(n) == n.ref # None
children(n) == n.children
xsd_type(n) == n.xsd_type
is_element(n) == n.is_element

UseValues == {"optional", "prohibited", "required"}

\* XsdNode::attr_use: the `use` attribute, Optional when it is absent; a value
\* outside the three XSD values has no UseType and the accessor fails.
attr_use(n) ==
    LET u == unwrap_or(n.use, "optional") IN
    CASE u = "optional" -> Ok("Optional")
      [] u = "prohibited" -> Ok("Prohibited")
      [] u = "required" -> Ok("Required")
      [] OTHER -> Panic("unknown use value")

\* a plausible slip: the first match instead of the last
first(seq) == IF seq = <<>> THEN None ELSE Some(seq[1])

\* Iterator::last
last(seq) == IF seq = <<>> THEN None ELSE Some(seq[Len(seq)])

(***************************************************************************)
(* IR entities (parser::types).                                            *)
(***************************************************************************)
Alias(name, original) ==
    [kind |-> "Alias", name |-> name, original |-> original, subtypes |-> <<>>]

Struct(name) ==
    [kind |-> "Struct", name |-> name, fields |-> <<>>, subtypes |-> <<>>]

TupleStruct(name, type_name, facets) ==
    [kind |-> "TupleStruct", name |-> name, type_name |-> type_name,
     facets |-> facets]

Enum(name, type_name, cases) ==
    [kind |-> "Enum", name |-> name, type_name |-> type_name, cases |-> cases]

StructField(name, type_name, subtypes, type_modifier) ==
    [kind |-> "StructField", name |-> name, type_name |-> type_name,
     subtypes |-> subtypes, source |-> "Attribute",
     type_modifiers |-> <<type_modifier>>]

\* RsEntity::set_name
set_name(entity, name) == [entity EXCEPT !.name = name]

\* RsEntity::name
name_of(entity) == entity.name

IsEnumeration(f) == f.facet_type = "Enumeration"

\* parse_node on an xs:simpleType with an xs:restriction child: an Enum over
\* the base when there is an enumeration facet, else a TupleStruct that
\* carries the facets.  The entity is anonymous until the caller names it.
parse_simple_type(content) ==
    IF \E i \in 1..Len(content.facets) : IsEnumeration(content.facets[i])
    THEN Enum("", content.base,
              [i \in 1..Len(SelectSeq(content.facets, IsEnumeration)) |->
                  [kind |-> "EnumCase",
                   value |-> SelectSeq(content.facets, IsEnumeration)[i].value]])
    ELSE TupleStruct("", content.base, content.facets)

\* parse_node: the dispatcher on the node's element type
parse_node(content, parentNode) ==
    IF xsd_type(content) = "SimpleType" THEN Ok(parse_simple_type(content))
    ELSE Panic("unsupported construct")

\* The emitter omits an Alias whose name equals its original.
EmitterElides(entity) ==
    entity.kind = "Alias" /\ entity.name = entity.original

(***************************************************************************)
(* parser::attribute                                                       *)
(***************************************************************************)
\* SUPPORTED_CONTENT_TYPES.contains(&n.xsd_type())
IsSupportedContent(n) == xsd_type(n) \in {"SimpleType"}

\* n.is_element() && n.xsd_type() == ElementType::SimpleType
IsSimpleTypeElement(n) == is_element(n) /\ xsd_type(n) = "SimpleType"

\* a plausible slip: the arms of Required and Optional exchanged
TypeModifierOf_Swapped(use) ==
    CASE use = "Optional" -> "None"
      [] use = "Prohibited" -> "Empty"
      [] use = "Required" -> "Option"

\* the match on node.attr_use()
TypeModifierOf(use) ==
    CASE use = "Optional" -> "Option"
      [] use = "Prohibited" -> "Empty"
      [] use = "Required" -> "None"

\* a plausible slip: an inline simpleType wins over the `type` attribute
parse_global_attribute_ContentBeforeType(n) ==
    IF attr_ref(n) # None
    THEN Ok(Alias(attr_ref(n)[1], attr_ref(n)[1]))
    ELSE IF attr_name(n) = None
    THEN Panic("Name attribute required.")
    ELSE LET name == attr_name(n)[1]
             content == last(SelectSeq(children(n), IsSimpleTypeElement))
         IN  IF content # None
             THEN LET parsed == parse_node(content[1], n) IN
                  IF parsed.kind = "Ok"
                  THEN Ok(set_name(parsed.value, name))
                  ELSE parsed
             ELSE IF attr_type(n) # None
             THEN Ok(Alias(name, attr_type(n)[1]))
             ELSE Ok(Struct(name))

\* a plausible slip: `ref` is looked at only when there is no `name`
parse_global_attribute_NameBeforeRef(n) ==
    IF attr_name(n) = None
    THEN IF attr_ref(n) # None
         THEN Ok(Alias(attr_ref(n)[1], attr_ref(n)[1]))
         ELSE Panic("Name attribute required.")
    ELSE LET name == attr_name(n)[1]
             content == last(SelectSeq(children(n), IsSimpleTypeElement))
         IN  IF attr_type(n) # None
             THEN Ok(Alias(name, attr_type(n)[1]))
             ELSE IF attr_ref(n) # None
             THEN Ok(Alias(attr_ref(n)[1], attr_ref(n)[1]))
             ELSE IF content # None
             THEN LET parsed == parse_node(content[1], n) IN
                  IF parsed.kind = "Ok"
                  THEN Ok(set_name(parsed.value, name))
                  ELSE parsed
             ELSE Ok(Struct(name))

parse_global_attribute(n) ==
    IF attr_ref(n) # None
    THEN Ok(Alias(attr_ref(n)[1], attr_ref(n)[1]))
    ELSE IF attr_name(n) = None
    THEN Panic("Name attribute required.")
    ELSE LET name == attr_name(n)[1]
             content == last(SelectSeq(children(n), IsSimpleTypeElement))
         IN  IF attr_type(n) # None
             THEN Ok(Alias(name, attr_type(n)[1]))
             ELSE IF content # None
             THEN LET parsed == parse_node(content[1], n) IN
                  IF parsed.kind = "Ok"
                  THEN Ok(set_name(parsed.value, name))
                  ELSE parsed
             ELSE Ok(Struct(name))

\* a plausible slip: `ref` is preferred to `type`
typed_field_RefFirst(n, name, type_modifier) ==
    Ok(StructField(name,
                   unwrap_or(attr_ref(n), unwrap_or(attr_type(n), "String")),
                   <<>>, type_modifier))

\* the branch of parse_attribute taken when `type` or `ref` is present
typed_field(n, name, type_modifier) ==
    Ok(StructField(name,
                   unwrap_or(attr_type(n), unwrap_or(attr_ref(n), "String")),
                   <<>>, type_modifier))

\* a plausible slip: the inline type is named but not kept as a subtype
inline_field_NoSubtype(n, name, type_modifier) ==
    LET content_node == last(SelectSeq(children(n), IsSupportedContent)) IN
    IF content_node = None
    THEN Panic("Must have content if no type or ref attribute")
    ELSE LET parsed == parse_node(content_node[1], n) IN
         IF parsed.kind # "Ok"
         THEN parsed
         ELSE LET field_type == set_name(parsed.value, name \o "Type") IN
              Ok(StructField(name, name_of(field_type), <<>>, type_modifier))

\* the rest of parse_attribute: the field's type is the inline simpleType
inline_field(n, name, type_modifier) ==
    LET content_node == last(SelectSeq(children(n), IsSupportedContent)) IN
    IF content_node = None
    THEN Panic("Must have content if no type or ref attribute")
    ELSE LET parsed == parse_node(content_node[1], n) IN
         IF parsed.kind # "Ok"
         THEN parsed
         ELSE LET field_type == set_name(parsed.value, name \o "Type") IN
              Ok(StructField(name, name_of(field_type), <<field_type>>,
                             type_modifier))

parse_attribute(n, p) ==
    IF xsd_type(p) = "Schema"
    THEN parse_global_attribute(n)
    ELSE LET nameOpt == or_else(attr_name(n), attr_ref(n)) IN
    IF nameOpt = None
    THEN Panic("All attributes have name or ref")
    ELSE IF attr_use(n).kind # "Ok"
    THEN attr_use(n)
    ELSE LET name == nameOpt[1]
             type_modifier == TypeModifierOf(attr_use(n).value)
         IN  IF has_attribute_TYPE(n) \/ has_attribute_REF(n)
             THEN typed_field(n, name, type_modifier)
             ELSE inline_field(n, name, type_modifier)

(***************************************************************************)
(* Inputs of the attribute parser.                                         *)
(***************************************************************************)
Facet(t, v) == [facet_type |-> t, value |-> v]

ChildNode(t, e, b, f) ==
    [xsd_type |-> t, is_element |-> e, base |-> b, facets |-> f]

SimpleTypeNodes ==
    { ChildNode("SimpleType", TRUE, "xs:string", <<Facet("MinLength", "3")>>),
      ChildNode("SimpleType", TRUE, "xs:int",
                <<Facet("MinInclusive", "0"), Facet("MaxInclusive", "9")>>),
      ChildNode("SimpleType", TRUE, "xs:string",
                <<Facet("Enumeration", "red"), Facet("Enumeration", "green")>>),
      ChildNode("SimpleType", TRUE, "xs:token",
                <<Facet("MaxLength", "8"), Facet("Enumeration", "on")>>) }

OtherNodes ==
    { ChildNode("Annotation", TRUE, "", <<>>),
      ChildNode("Unknown", FALSE, "", <<>>) }       \* a text node

ChildNodes == SimpleTypeNodes \cup OtherNodes

SeqsUpTo(S, n) == UNION {[1..k -> S] : k \in 0..n}

AttributeNodes ==
    [name : {None, Some("contentType")},
     ref : {None, Some("xlink:href")},
     type : {None, Some("xs:string")},
     use : {None, Some("optional"), Some("required"), Some("prohibited"),
            Some("sometimes")},
     children : SeqsUpTo(ChildNodes, MaxChildren)]

ParentNodes == {[xsd_type |-> "Schema"], [xsd_type |-> "ComplexType"]}

NoNode == [name |-> None, ref |-> None, type |-> None, use |-> None,
           children |-> <<>>]

(***************************************************************************)
(* Text.  A character is a one-letter token: "a", "b", "/" are one-byte    *)
(* letters, "U" is a character of two UTF-8 bytes, "SP" is a space, "CR" a *)
(* carriage return and "LF" a line feed.  A byte is <<c, k>>: the k-th     *)
(* byte of the encoding of character c.                                    *)
(***************************************************************************)
ChunkSize == 60

Width(c) == IF c = "U" THEN 2 ELSE 1

White == {"SP", "CR", "LF"}

Min(a, b) == IF a < b THEN a ELSE b

\* <<c, k>> is a byte of the encoding of c
IsByteOf(b) == b[2] <= Width(b[1])

\* str::as_bytes: each character's bytes in order (UTF-8 has at most 4 a character)
as_bytes(s) ==
    SelectSeq([j \in 1..(4 * Len(s)) |->
                  <<s[((j - 1) \div 4) + 1], ((j - 1) % 4) + 1>>],
              IsByteOf)

\* str::len, a count of bytes
len(s) == Len(as_bytes(s))

\* slice::chunks
chunks(b, n) ==
    [i \in 1..((Len(b) + n - 1) \div n) |->
        SubSeq(b, (i - 1) * n + 1, Min(i * n, Len(b)))]

IsLeadByte(b) == b[2] = 1

\* str::from_utf8: an error when the bytes begin inside a character or end
\* before a character is complete, else the characters they encode
from_utf8(b) ==
    IF \A j \in 1..Len(b) :
          /\ b[j][2] > 1 => (j > 1 /\ b[j - 1] = <<b[j][1], b[j][2] - 1>>)
          /\ b[j][2] < Width(b[j][1]) =>
                 (j < Len(b) /\ b[j + 1] = <<b[j][1], b[j][2] + 1>>)
    THEN Ok([i \in 1..Len(SelectSeq(b, IsLeadByte)) |->
                SelectSeq(b, IsLeadByte)[i][1]])
    ELSE [kind |-> "Utf8Error"]

RECURSIVE lines(_)
\* str::lines: split at line feeds, a final empty piece is not a line, and a
\* carriage return right before the line feed is not part of the line
lines(s) ==
    IF s = <<>> THEN <<>>
    ELSE LET lf == {i \in 1..Len(s) : s[i] = "LF"} IN
         IF lf = {} THEN <<s>>
         ELSE LET i == CHOOSE k \in lf : \A j \in lf : k <= j
                  e == IF i > 1 /\ s[i - 1] = "CR" THEN i - 2 ELSE i - 1
              IN  <<SubSeq(s, 1, e)>> \o lines(SubSeq(s, i + 1, Len(s)))

\* str::trim
trim(s) ==
    LET keep == {i \in 1..Len(s) : s[i] \notin White} IN
    IF keep = {} THEN <<>>
    ELSE SubSeq(s, CHOOSE i \in keep : \A j \in keep : i <= j,
                   CHOOSE i \in keep : \A j \in keep : j <= i)

RECURSIVE join(_)
\* concatenation of a sequence of strings (join(""), fold with +)
join(ss) == IF ss = <<>> THEN <<>> ELSE Head(ss) \o join(Tail(ss))

(***************************************************************************)
(* generator::utils                                                        *)
(***************************************************************************)
\* format!("// {}\n", payload)
format_line(payload) == <<"/", "/", "SP">> \o payload \o <<"LF">>

\* a plausible slip: the segment ends the line, as in split_comment_line
format_field_Newline(s) == <<"/", "/", "SP">> \o s \o <<"LF">>

\* format!("// {}  ", s)
format_field(s) == <<"/", "/", "SP">> \o s \o <<"SP", "SP">>

\* filter(|s| s.len() > 2)
LongerThan2(s) == len(s) > 2

\* filter(|s| s.len() > 1)
LongerThan1(s) == len(s) > 1

\* lines().map(|s| s.trim())
trimmed_lines(text) == [i \in 1..Len(lines(text)) |-> trim(lines(text)[i])]

split_comment_line(s) ==
    LET ch == chunks(as_bytes(s), ChunkSize)
        decoded == [i \in 1..Len(ch) |-> from_utf8(ch[i])]
    IN  IF \E i \in 1..Len(decoded) : decoded[i].kind # "Ok"
        THEN Panic("unwrap on Utf8Error")
        ELSE Ok(join([i \in 1..Len(decoded) |-> format_line(decoded[i].value)]))

get_structure_comment(d) ==
    LET kept == SelectSeq(trimmed_lines(unwrap_or(d, <<>>)), LongerThan2)
        split == [i \in 1..Len(kept) |-> split_comment_line(kept[i])]
    IN  IF \E i \in 1..Len(split) : split[i].kind # "Ok"
        THEN split[CHOOSE i \in 1..Len(split) :
                      /\ split[i].kind # "Ok"
                      /\ \A j \in 1..(i - 1) : split[j].kind = "Ok"]
        ELSE Ok(join([i \in 1..Len(split) |-> split[i].value]))

get_field_comment(d) ==
    LET kept == SelectSeq(trimmed_lines(unwrap_or(d, <<>>)), LongerThan1)
    IN  Ok(join([i \in 1..Len(kept) |-> format_field(kept[i])]))

(***************************************************************************)
(* Inputs of the comment builders.                                         *)
(***************************************************************************)
Alphabet == {"a", "U", "SP", "LF", "CR"}

\* a line of n characters, the p-th a two-byte character (none when p = 0)
LongLine(n, p) ==
    [i \in 1..n |-> IF i = p THEN "U" ELSE IF i % 2 = 1 THEN "a" ELSE "b"]

LinePrefixes ==
    { <<>>,
      <<"SP", "b", "a", "b", "SP", "LF">>,
      <<"a", "b", "LF">> }

LineSuffixes == { <<>>, <<"SP", "CR", "LF">> }

LongDocs ==
    { pre \o LongLine(n, p) \o suf :
        pre \in LinePrefixes, suf \in LineSuffixes,
        n \in 0..MaxLineLen, p \in {0, 1, ChunkSize} }

DocInputs ==
    {None} \cup {Some(t) : t \in SeqsUpTo(Alphabet, MaxDocLen) \cup LongDocs}

(***************************************************************************)
(* The state machine: one input, then one call on it.                      *)
(***************************************************************************)
Init ==
    /\ mode \in {"attr", "doc"}
    /\ node \in IF mode = "attr" THEN AttributeNodes ELSE {NoNode}
    /\ parent \in IF mode = "attr" THEN ParentNodes
                  ELSE {[xsd_type |-> "Schema"]}
    /\ doc \in IF mode = "doc" THEN DocInputs ELSE {None}
    /\ op = "init"
    /\ result = NoResult

ParseAttribute ==
    /\ mode = "attr" /\ op = "init"
    /\ result' = parse_attribute(node, parent)
    /\ op' = "parse_attribute"
    /\ UNCHANGED <<mode, node, parent, doc>>

\* the direct call of the module's tests, on a child of the schema root
ParseGlobalAttribute ==
    /\ mode = "attr" /\ op = "init"
    /\ xsd_type(parent) = "Schema"
    /\ result' = parse_global_attribute(node)
    /\ op' = "parse_global_attribute"
    /\ UNCHANGED <<mode, node, parent, doc>>

GetStructureComment ==
    /\ mode = "doc" /\ op = "init"
    /\ result' = get_structure_comment(doc)
    /\ op' = "get_structure_comment"
    /\ UNCHANGED <<mode, node, parent, doc>>

GetFieldComment ==
    /\ mode = "doc" /\ op = "init"
    /\ result' = get_field_comment(doc)
    /\ op' = "get_field_comment"
    /\ UNCHANGED <<mode, node, parent, doc>>

Next ==
    \/ ParseAttribute
    \/ ParseGlobalAttribute
    \/ GetStructureComment
    \/ GetFieldComment

Spec == Init /\ [][Next]_vars

TypeOK ==
    /\ mode \in {"attr", "doc"}
    /\ op \in {"init", "parse_attribute", "parse_global_attribute",
               "get_structure_comment", "get_field_comment"}
    /\ result.kind \in {"NoResult", "Ok", "Panic"}

(***************************************************************************)
(* Properties of the attribute parser.                                     *)
(***************************************************************************)
Has(o) == o # None

\* parse_attribute ran on an attribute whose parent is not the schema root
LocalRan == op = "parse_attribute" /\ xsd_type(parent) # "Schema"

\* the attribute was parsed as a global attribute
GlobalRan ==
    \/ op = "parse_global_attribute"
    \/ op = "parse_attribute" /\ xsd_type(parent) = "Schema"

ValidUse == node.use = None \/ node.use[1] \in UseValues

\* positions of the inline simpleType element children of the attribute
SimpleTypeIdx ==
    {i \in 1..Len(node.children) :
        /\ node.children[i].xsd_type = "SimpleType"
        /\ node.children[i].is_element}

LastSimpleType ==
    node.children[CHOOSE i \in SimpleTypeIdx : \A j \in SimpleTypeIdx : j <= i]

NoEnumerationFacet(st) ==
    \A i \in 1..Len(st.facets) : st.facets[i].facet_type # "Enumeration"

\* C1: a global attribute with `name` and `type` and no `ref` gives an Alias
\* named `name`, of original `type`, with no subtypes, whether or not it has
\* an inline simpleType child.
C1_GlobalTypedAlias ==
    (GlobalRan /\ Has(node.name) /\ Has(node.type) /\ ~Has(node.ref)) =>
        /\ result.kind = "Ok"
        /\ result.value.kind = "Alias"
        /\ result.value.name = node.name[1]
        /\ result.value.original = node.type[1]
        /\ result.value.subtypes = <<>>

C1_Witness ==
    /\ op = "parse_global_attribute"
    /\ Has(node.name) /\ Has(node.type) /\ ~Has(node.ref)
    /\ SimpleTypeIdx # {}
    /\ result.kind = "Ok" /\ result.value.kind = "Alias"

\* C2: a global attribute with `name`, no `type`, no `ref` and an inline
\* simpleType element child gives what parse_node gives for the last such
\* child, named `name`; when that child's restriction has no enumeration
\* facet it is a TupleStruct over the restriction base with one facet entry
\* per facet.
C2_GlobalInlinePromoted ==
    (/\ GlobalRan
     /\ Has(node.name) /\ ~Has(node.type) /\ ~Has(node.ref)
     /\ SimpleTypeIdx # {}) =>
        /\ result.kind = "Ok"
        /\ result.value.name = node.name[1]
        /\ [result.value EXCEPT !.name = ""] =
               parse_node(LastSimpleType, node).value
        /\ NoEnumerationFacet(LastSimpleType) =>
               /\ result.value.kind = "TupleStruct"
               /\ result.value.type_name = LastSimpleType.base
               /\ Len(result.value.facets) = Len(LastSimpleType.facets)

C2_Witness ==
    /\ op = "parse_global_attribute"
    /\ Has(node.name) /\ ~Has(node.type) /\ ~Has(node.ref)
    /\ Cardinality(SimpleTypeIdx) > 1
    /\ node.children[1] # LastSimpleType
    /\ result.kind = "Ok" /\ result.value.kind = "TupleStruct"
    /\ Len(result.value.facets) > 1

\* the type modifier the specification gives for a `use` attribute
UseModifier(use) ==
    IF use = None \/ use = Some("optional") THEN "Option"
    ELSE IF use = Some("required") THEN "None"
    ELSE "Empty"

\* C3: whenever parse_attribute returns for a local attribute, the result is
\* a StructField of source Attribute with exactly one type modifier, which
\* `use` alone decides: Optional or absent gives Option, Required gives None,
\* Prohibited gives Empty.
C3_UseDecidesModifier ==
    (LocalRan /\ result.kind = "Ok") =>
        /\ result.value.kind = "StructField"
        /\ result.value.source = "Attribute"
        /\ Len(result.value.type_modifiers) = 1
        /\ ValidUse
        /\ result.value.type_modifiers[1] = UseModifier(node.use)

C3_Witness ==
    /\ LocalRan /\ result.kind = "Ok"
    /\ node.use = Some("required")
    /\ result.value.type_modifiers = <<"None">>

\* C4 as stated: the type name of a local attribute's field is `type`, else
\* `ref`, else the default "String", which comes before any inline
\* simpleType.
C4_StringBeforeInline ==
    (LocalRan /\ result.kind = "Ok") =>
        result.value.type_name =
            IF Has(node.type) THEN node.type[1]
            ELSE IF Has(node.ref) THEN node.ref[1]
            ELSE "String"

\* C4 as amended: the type name of a local attribute's field is `type`, else
\* `ref`, else `<Name>Type` for the last inline simpleType child; without
\* `type`, `ref` and an inline simpleType child the call does not return.
C4_TypeRefThenInline ==
    /\ (LocalRan /\ result.kind = "Ok") =>
           result.value.type_name =
               IF Has(node.type) THEN node.type[1]
               ELSE IF Has(node.ref) THEN node.ref[1]
               ELSE node.name[1] \o "Type"
    /\ (LocalRan /\ ~Has(node.type) /\ ~Has(node.ref)) =>
           \/ result.kind = "Ok" /\ SimpleTypeIdx # {}
           \/ result.kind = "Panic" /\
                  (SimpleTypeIdx = {} \/ ~Has(node.name) \/ ~ValidUse)

C4_Witness ==
    /\ LocalRan /\ result.kind = "Ok"
    /\ ~Has(node.type) /\ ~Has(node.ref)
    /\ result.value.type_name = "contentTypeType"

\* C5 as stated: an attribute with neither `name` nor `ref` makes the parse
\* end in a MalformedSchema error value handed to the caller, for a local and
\* for a global attribute.
C5_MalformedSchemaError ==
    ((LocalRan \/ GlobalRan) /\ ~Has(node.name) /\ ~Has(node.ref)) =>
        /\ result.kind = "Err"
        /\ result.error = "MalformedSchema"

\* C9: a local attribute with `name`, no `type`, no `ref` and an inline
\* simpleType child gives a StructField with exactly one subtype, what
\* parse_node gives for the last simpleType child renamed `<Name>Type`, and a
\* type_name equal to that subtype's name; with `type` or `ref` the subtypes
\* are empty.
C9_InlineSubtypeOwned ==
    /\ (/\ LocalRan /\ ValidUse
        /\ Has(node.name) /\ ~Has(node.type) /\ ~Has(node.ref)
        /\ SimpleTypeIdx # {}) =>
           /\ result.kind = "Ok"
           /\ result.value.kind = "StructField"
           /\ Len(result.value.subtypes) = 1
           /\ result.value.subtypes[1] =
                  [parse_node(LastSimpleType, node).value
                      EXCEPT !.name = node.name[1] \o "Type"]
           /\ result.value.type_name = result.value.subtypes[1].name
    /\ (LocalRan /\ result.kind = "Ok"
        /\ (Has(node.type) \/ Has(node.ref))) =>
           /\ result.value.kind = "StructField"
           /\ result.value.subtypes = <<>>

C9_Witness ==
    /\ LocalRan /\ result.kind = "Ok"
    /\ Has(node.name) /\ ~Has(node.type) /\ ~Has(node.ref)
    /\ Cardinality(SimpleTypeIdx) > 1
    /\ node.children[1] # LastSimpleType
    /\ Len(result.value.subtypes) = 1
    /\ result.value.subtypes[1].name = "contentTypeType"

\* C10: a global attribute with a `ref` gives an Alias whose name and
\* original are both the `ref`, with no subtypes, whatever its `name`, `type`
\* or children, so the emitter elides it; and parse_attribute gives no
\* StructField for a child of the schema root.
C10_GlobalRefNoOpAlias ==
    /\ (GlobalRan /\ Has(node.ref)) =>
           /\ result.kind = "Ok"
           /\ result.value.kind = "Alias"
           /\ result.value.name = node.ref[1]
           /\ result.value.original = node.ref[1]
           /\ result.value.subtypes = <<>>
           /\ EmitterElides(result.value)
    /\ (op = "parse_attribute" /\ xsd_type(parent) = "Schema"
        /\ result.kind = "Ok") =>
           result.value.kind # "StructField"

C10_Witness ==
    /\ op = "parse_attribute" /\ xsd_type(parent) = "Schema"
    /\ Has(node.ref) /\ Has(node.name) /\ Has(node.type)
    /\ SimpleTypeIdx # {}
    /\ result.kind = "Ok" /\ result.value.name = "xlink:href"

(***************************************************************************)
(* Properties of the comment builders.                                     *)
(***************************************************************************)
DocText == unwrap_or(doc, <<>>)

\* the trimmed documentation lines of more than 2 bytes, in input order
LinesOver2 == SelectSeq(trimmed_lines(DocText), LongerThan2)

RECURSIVE SplitLF(_)
\* the physical lines of an output in which a line feed ends every line
SplitLF(out) ==
    IF out = <<>> THEN <<>>
    ELSE LET lf == {i \in 1..Len(out) : out[i] = "LF"}
             i == IF lf = {} THEN Len(out) + 1
                  ELSE CHOOSE k \in lf : \A j \in lf : k <= j
         IN  <<SubSeq(out, 1, i - 1)>> \o SplitLF(SubSeq(out, i + 1, Len(out)))

HasCommentPrefix(l) == Len(l) >= 3 /\ SubSeq(l, 1, 3) = <<"/", "/", "SP">>

\* what follows the "// " of a physical line
Payload(l) == SubSeq(l, 4, Len(l))

\* the payloads of the physical lines of an output, concatenated
Payloads(out) ==
    join([i \in 1..Len(SplitLF(out)) |-> Payload(SplitLF(out)[i])])

\* `out` is the line t wrapped at ChunkSize bytes
WrappedAs(out, t) ==
    LET phys == SplitLF(out)
        n == (len(t) + ChunkSize - 1) \div ChunkSize
    IN  /\ out # <<>> /\ out[Len(out)] = "LF"
        /\ Len(phys) = n
        /\ \A i \in 1..n :
              /\ HasCommentPrefix(phys[i])
              /\ i < n => len(Payload(phys[i])) = ChunkSize
              /\ i = n => len(Payload(phys[i])) >= 1
        /\ Payloads(out) = t

\* C6 as stated, for a documentation with one kept line: get_structure_comment
\* gives ceil(L/60) physical lines "// " + payload + line feed, every payload
\* but the last of exactly 60 bytes, the last the non-empty remainder, and
\* the payloads together are the trimmed line.
C6_WrapsAt60Bytes ==
    (op = "get_structure_comment" /\ Len(LinesOver2) = 1) =>
        /\ result.kind = "Ok"
        /\ WrappedAs(result.value, LinesOver2[1])

\* the same, where no character of the line lies across a 60-byte boundary
C6_WrapsWhenReturning ==
    (op = "get_structure_comment" /\ Len(LinesOver2) = 1
     /\ result.kind = "Ok") =>
        WrappedAs(result.value, LinesOver2[1])

\* C7 as stated, wherever the builder returns: both builders keep exactly the
\* trimmed lines longer than 2, in input order, and a missing documentation
\* gives the empty string.
C7_BothDropUpTo2 ==
    (op \in {"get_structure_comment", "get_field_comment"}
     /\ result.kind = "Ok") =>
        /\ doc = None => result.value = <<>>
        /\ op = "get_structure_comment" =>
               Payloads(result.value) = join(LinesOver2)
        /\ op = "get_field_comment" =>
               result.value =
                   join([i \in 1..Len(LinesOver2) |->
                            <<"/", "/", "SP">> \o LinesOver2[i] \o <<"SP", "SP">>])

\* the elements of seq at the positions in keep, in order
PickSeq(seq, keep) ==
    LET isKept(i) == i \in keep
        idx == SelectSeq([i \in 1..Len(seq) |-> i], isKept)
    IN  [k \in 1..Len(idx) |-> seq[idx[k]]]

\* C8: the output of get_field_comment has no line feed, is made of one
\* segment "// " + trimmed line + two spaces for each kept line in input
\* order (every line longer than 2 is kept, no empty line is), and ends with
\* two spaces when it is not empty.
C8_FieldCommentOneLine ==
    op = "get_field_comment" =>
        /\ result.kind = "Ok"
        /\ \A i \in 1..Len(result.value) : result.value[i] # "LF"
        /\ result.value # <<>> =>
               /\ Len(result.value) >= 5
               /\ SubSeq(result.value, Len(result.value) - 1,
                         Len(result.value)) = <<"SP", "SP">>
        /\ LET tl == trimmed_lines(DocText) IN
           \E keep \in SUBSET (1..Len(tl)) :
              /\ \A i \in 1..Len(tl) : len(tl[i]) > 2 => i \in keep
              /\ \A i \in keep : tl[i] # <<>>
              /\ result.value =
                     join([k \in 1..Len(PickSeq(tl, keep)) |->
                              <<"/", "/", "SP">> \o PickSeq(tl, keep)[k]
                                  \o <<"SP", "SP">>])

C8_Witness ==
    /\ op = "get_field_comment" /\ result.kind = "Ok"
    /\ Len(LinesOver2) = 2
    /\ len(LinesOver2[2]) > ChunkSize
    /\ Len(result.value) = len(LinesOver2[1]) + len(LinesOver2[2]) + 10

====
